---- MODULE Spec2Model ----
(***************************************************************************)
(* Model of src/main.py: a Tk window (class Window) that starts a          *)
(* countdown in a child process (function decrement) and polls a pipe for  *)
(* the numbers the child sends.                                            *)
(*                                                                         *)
(* The GUI thread runs one handler at a time (do_countdown, update,        *)
(* clear_countdown_label, on_close); the only place a handler blocks is    *)
(* the join of line 62, modelled by gpc = "join".  Every child process     *)
(* runs decrement one statement at a time, interleaved with the GUI.       *)
(*                                                                         *)
(* Window.update is reached in two ways: as a callback of root.after       *)
(* (TimerUpdate) and as a call of the public method (CallUpdate; update    *)
(* overrides tk.Misc.update).  The call is needed for update to run at     *)
(* all: line 53 of do_countdown reads self.parent, which __init__ never    *)
(* sets, so the first after() is never made.  CallUpdate stands for one    *)
(* poll tick and is taken only when no poll tick is pending.               *)
(***************************************************************************)
EXTENDS Integers, Sequences, FiniteSets, Bags, TLC

VARIABLES
    procs,        \* every multiprocessing.Process started, in start order
    cur,          \* self.countdown_thread: index into procs, 0 for None
    pipe,         \* messages buffered in the channel self.gui_pipe reads
    sent,         \* history: what was sent on the channel of self.gui_pipe
    recvd,        \* history: what update received from self.gui_pipe
    display,      \* self.countdown_var, a sequence of characters
    timers,       \* callbacks given to root.after and not yet run, a bag
    gpc,          \* GUI thread: "idle" between handlers, "join" inside line 62
    destroyed,    \* root.destroy() was called; mainloop has returned
    last          \* history: the last handler that ran and how it ended

vars == <<procs, cur, pipe, sent, recvd, display, timers, gpc, destroyed,
          last>>

-----------------------------------------------------------------------------
(* Bounds of the model and constants of the program *)

\* how many times do_countdown is invoked in a run
MaxSpawn == 2

\* largest start_num the decrement harness (SpecDecrement) draws
MaxStart == 10

\* args=(10, process_pipe,)
StartNum == 10

\* after(100, self.update)
PollDelay == 100

\* after(1000, self.clear_countdown_label)
ClearDelay == 1000

-----------------------------------------------------------------------------
(* Strings *)

DigitChars == <<"0", "1", "2", "3", "4", "5", "6", "7", "8", "9">>

RECURSIVE Digits(_)
Digits(n) ==
    IF n < 10 THEN <<DigitChars[n + 1]>>
    ELSE Digits(n \div 10) \o <<DigitChars[(n % 10) + 1]>>

\* a formatter that pads to two digits
FormatPadded(num) == IF num < 10 THEN <<"0">> \o Digits(num) ELSE Digits(num)

\* f"{num}" of an int
Format(num) == IF num < 0 THEN <<"-">> \o Digits(0 - num) ELSE Digits(num)

EndText == <<"E", "n", "d", "!">>

\* the label cleared to a blank, as the comment of lines 76-78 words it
BlankText == <<" ">>

\* countdown_var.set("")
EmptyText == <<>>

-----------------------------------------------------------------------------
(* decrement(start_num, pipe_out): one step per send and per sleep; the loop *)
(* test and the decrement, which touch only the local start_num, belong to  *)
(* the step before them                                                     *)

\* the loop test with an off-by-one
LoopCondInclusive(n) == n >= 0

\* while start_num > 0
LoopCond(n) == n > 0

\* start_num = start_num - 1
Decrement(n) == n - 1

\* a child process that has neither returned nor been killed
Running(p) == p.pc \in {"test", "send", "sleep", "final"}

Alive(w) == Running(procs[w])

NewProc(start) == [start |-> start, n |-> start, pc |-> "test", joined |-> FALSE]

\* line 10 and, when the test passes, line 11
LoopTest(p) ==
    IF LoopCond(p.n)
    THEN [p EXCEPT !.n = Decrement(@), !.pc = "send"]
    ELSE [p EXCEPT !.pc = "final"]

\* the process starts: the first loop test
WorkerTest(w) ==
    /\ procs[w].pc = "test"
    /\ procs' = [procs EXCEPT ![w] = LoopTest(@)]
    /\ UNCHANGED <<cur, pipe, sent, recvd, display, timers, gpc, destroyed,
                   last>>

\* a send that completes only while the GUI thread is free to receive, as on
\* an unbuffered channel
SendCurrentSync(w, v, nextpc) ==
    /\ w = cur
    /\ gpc = "idle"
    /\ pipe' = Append(pipe, v)
    /\ sent' = Append(sent, v)
    /\ procs' = [procs EXCEPT ![w].pc = nextpc]

\* pipe_out.send(v) on the channel self.gui_pipe reads: the pipe buffers the
\* message, the sender does not wait for the receiver
SendCurrent(w, v, nextpc) ==
    /\ w = cur
    /\ pipe' = Append(pipe, v)
    /\ sent' = Append(sent, v)
    /\ procs' = [procs EXCEPT ![w].pc = nextpc]

\* pipe_out.send(v) on a channel whose receiving end do_countdown dropped
\* when it rebound self.gui_pipe: nothing reads it; whether the send is
\* buffered or raises BrokenPipeError depends on the process start method.
SendDropped(w, v, nextpc) ==
    /\ w # cur
    /\ UNCHANGED <<pipe, sent>>
    /\ \/ procs' = [procs EXCEPT ![w].pc = nextpc]
       \/ procs' = [procs EXCEPT ![w].pc = "done"]

\* line 13
WorkerSend(w) ==
    /\ procs[w].pc = "send"
    /\ \/ SendCurrent(w, procs[w].n, "sleep")
       \/ SendDropped(w, procs[w].n, "sleep")
    /\ UNCHANGED <<cur, recvd, display, timers, gpc, destroyed, last>>

\* line 14, then back to the loop test
WorkerSleep(w) ==
    /\ procs[w].pc = "sleep"
    /\ procs' = [procs EXCEPT ![w] = LoopTest(@)]
    /\ UNCHANGED <<cur, pipe, sent, recvd, display, timers, gpc, destroyed,
                   last>>

\* a decrement that returns without the trailing send
WorkerFinalSilent(w) ==
    /\ procs[w].pc = "final"
    /\ procs' = [procs EXCEPT ![w].pc = "done"]
    /\ UNCHANGED <<cur, pipe, sent, recvd, display, timers, gpc, destroyed,
                   last>>

\* line 15, after which the function returns and the process exits
WorkerFinal(w) ==
    /\ procs[w].pc = "final"
    /\ \/ SendCurrent(w, 0, "done")
       \/ SendDropped(w, 0, "done")
    /\ UNCHANGED <<cur, recvd, display, timers, gpc, destroyed, last>>

Test == \E w \in 1..Len(procs) : WorkerTest(w)
Send == \E w \in 1..Len(procs) : WorkerSend(w)
Sleep == \E w \in 1..Len(procs) : WorkerSleep(w)
Final == \E w \in 1..Len(procs) : WorkerFinal(w)

decrement == Test \/ Send \/ Sleep \/ Final

-----------------------------------------------------------------------------
(* class Window *)

\* via: "event" for a user event, "timer" for an after() callback, "call" for
\* a call of the method
Handler(op, via, val, exc) == [op |-> op, via |-> via, val |-> val, exc |-> exc]

\* the GUI thread is in mainloop and between two handlers
GuiReady == gpc = "idle" /\ ~destroyed

Timer(ms, fn) == [ms |-> ms, fn |-> fn]

\* root.after(ms, fn): one more pending callback
After(t, ms, fn) == t (+) SetToBag({Timer(ms, fn)})

\* mainloop takes a pending callback to run it
Fire(t, tm) == t (-) SetToBag({tm})

\* the pending callbacks of t that run fn
Pending(t, fn) == [tm \in {x \in DOMAIN t : x.fn = fn} |-> t[tm]]

afterUpdate == BagCardinality(Pending(timers, "update"))

afterClear == BagCardinality(Pending(timers, "clear"))

\* a do_countdown whose line 53 schedules the first poll
ParentAfterScheduled(t) == After(t, PollDelay, "update")

\* line 53: self.parent.after(100, self.update).  __init__ sets self.root
\* and never self.parent, so the attribute read raises AttributeError before
\* after() is called: the pending callbacks stay as they were.
ParentAfter(t) == t

\* what line 53 raises
ParentAfterExc ==
    IF ParentAfter(EmptyBag) = EmptyBag THEN "AttributeError" ELSE "none"

\* button "Click me"
do_countdown ==
    /\ GuiReady
    /\ Len(procs) < MaxSpawn
    /\ pipe' = <<>>
    /\ sent' = <<>>
    /\ recvd' = <<>>
    /\ procs' = Append(procs, NewProc(StartNum))
    /\ cur' = Len(procs) + 1
    /\ timers' = ParentAfter(timers)
    /\ last' = Handler("do_countdown", "event", -1, ParentAfterExc)
    /\ UNCHANGED <<display, gpc, destroyed>>

\* a receive that takes the newest message and discards the older ones
RecvLatest(p) == [num |-> p[Len(p)], rest |-> <<>>]

\* self.gui_pipe.recv(): the oldest buffered message
Recv(p) == [num |-> Head(p), rest |-> Tail(p)]

\* an update that polls again after the terminal 0
AfterZeroRepoll(t) == After(t, PollDelay, "update")

\* lines 60-66 schedule no update
AfterZero(t) == t

\* line 74: self.root.after(100, self.update)
AfterNumber(t) == After(t, PollDelay, "update")

\* line 66: self.root.after(1000, self.clear_countdown_label)
AfterEnd(t) == After(t, ClearDelay, "clear")

\* a terminal test that also ends the countdown on 1
IsTerminalEarly(num) == num <= 1

\* a terminal test that never matches a value the worker sends
IsTerminalNever(num) == num < 0

\* line 60: if num == 0
IsTerminal(num) == num = 0

\* lines 57-74 up to the join; t is timers without the callback that is
\* running
UpdateBody(t, via) ==
    /\ GuiReady
    /\ UNCHANGED <<procs, cur, sent, destroyed>>
    /\ IF cur = 0
       THEN \* no do_countdown yet: self.gui_pipe does not exist
            /\ last' = Handler("update", via, -1, "AttributeError")
            /\ timers' = t
            /\ UNCHANGED <<pipe, recvd, display, gpc>>
       ELSE IF pipe = <<>>
       THEN \* poll(1) sees no message.  With the sender gone the pipe may
            \* be at end of file: poll is then true and recv raises EOFError.
            /\ \/ last' = Handler("update:timeout", via, -1, "none")
               \/ /\ ~Alive(cur)
                  /\ last' = Handler("update:timeout", via, -1, "EOFError")
            /\ timers' = t
            /\ UNCHANGED <<pipe, recvd, display, gpc>>
       ELSE LET r == Recv(pipe) IN
            /\ pipe' = r.rest
            /\ recvd' = Append(recvd, r.num)
            /\ IF IsTerminal(r.num)
               THEN /\ gpc' = "join"
                    /\ last' = Handler("update:zero", via, r.num, "none")
                    /\ timers' = AfterZero(t)
                    /\ UNCHANGED display
               ELSE /\ display' = Format(r.num)
                    /\ timers' = AfterNumber(t)
                    /\ last' = Handler("update:number", via, r.num, "none")
                    /\ UNCHANGED gpc

\* update run by the timer
TimerUpdate ==
    \E tm \in BagToSet(timers) :
        /\ tm.fn = "update"
        /\ UpdateBody(Fire(timers, tm), "timer")

\* update called as one poll tick when none is pending
CallUpdate ==
    /\ afterUpdate = 0
    /\ UpdateBody(timers, "call")

\* lines 62-66: join returns once the process has exited
UpdateJoined ==
    /\ gpc = "join"
    /\ ~Alive(cur)
    /\ procs' = [procs EXCEPT ![cur].joined = TRUE]
    /\ display' = EndText
    /\ timers' = AfterEnd(timers)
    /\ gpc' = "idle"
    /\ last' = Handler("update:end", last.via, 0, "none")
    /\ UNCHANGED <<cur, pipe, sent, recvd, destroyed>>

\* clear_countdown_label run by the timer
clear_countdown_label ==
    /\ GuiReady
    /\ \E tm \in BagToSet(timers) :
        /\ tm.fn = "clear"
        /\ timers' = Fire(timers, tm)
    /\ display' = EmptyText
    /\ last' = Handler("clear", "timer", -1, "none")
    /\ UNCHANGED <<procs, cur, pipe, sent, recvd, gpc, destroyed>>

\* an on_close that never kills
CloseKillNever(p, c) == p

\* an on_close that kills whenever a handle exists
CloseKillAlways(p, c) == IF c # 0 THEN [p EXCEPT ![c].pc = "killed"] ELSE p

\* lines 86-90: kill the current worker if there is one and it is alive
CloseKill(p, c) ==
    IF c # 0 /\ Running(p[c]) THEN [p EXCEPT ![c].pc = "killed"] ELSE p

\* WM_DELETE_WINDOW
on_close ==
    /\ GuiReady
    /\ procs' = CloseKill(procs, cur)
    /\ destroyed' = TRUE
    /\ last' = Handler("on_close", "event", -1, "none")
    /\ UNCHANGED <<cur, pipe, sent, recvd, display, timers, gpc>>

-----------------------------------------------------------------------------
(* The application *)

\* Window.__init__
Init ==
    /\ procs = <<>>
    /\ cur = 0
    /\ pipe = <<>>
    /\ sent = <<>>
    /\ recvd = <<>>
    /\ display = EmptyText
    /\ timers = EmptyBag
    /\ gpc = "idle"
    /\ destroyed = FALSE
    /\ last = Handler("init", "event", -1, "none")

Next ==
    \/ do_countdown
    \/ TimerUpdate
    \/ CallUpdate
    \/ UpdateJoined
    \/ clear_countdown_label
    \/ on_close
    \/ Test
    \/ Send
    \/ Sleep
    \/ Final

Spec == Init /\ [][Next]_vars

\* The child processes are scheduled by the operating system and the timer
\* callbacks by mainloop: each runs if it stays possible.
FairSpec ==
    /\ Init
    /\ [][Next]_vars
    /\ WF_vars(decrement)
    /\ WF_vars(TimerUpdate)
    /\ WF_vars(UpdateJoined)
    /\ WF_vars(clear_countdown_label)

-----------------------------------------------------------------------------
(* decrement on its own, for every start_num *)

InitDecrement ==
    /\ \E s \in 0..MaxStart : procs = <<NewProc(s)>>
    /\ cur = 1
    /\ pipe = <<>>
    /\ sent = <<>>
    /\ recvd = <<>>
    /\ display = EmptyText
    /\ timers = EmptyBag
    /\ gpc = "idle"
    /\ destroyed = FALSE
    /\ last = Handler("init", "event", -1, "none")

NextDecrement == Test \/ Send \/ Sleep \/ Final

SpecDecrement == InitDecrement /\ [][NextDecrement]_vars

-----------------------------------------------------------------------------
(* One countdown for every start_num: the state do_countdown leaves, with   *)
(* args=(s, process_pipe,) in place of 10, then the handlers and the worker *)

InitStart ==
    /\ \E s \in 0..MaxStart : procs = <<NewProc(s)>>
    /\ cur = 1
    /\ pipe = <<>>
    /\ sent = <<>>
    /\ recvd = <<>>
    /\ display = EmptyText
    /\ timers = ParentAfter(EmptyBag)
    /\ gpc = "idle"
    /\ destroyed = FALSE
    /\ last = Handler("do_countdown", "event", -1, ParentAfterExc)

NextStart ==
    \/ TimerUpdate
    \/ CallUpdate
    \/ UpdateJoined
    \/ clear_countdown_label
    \/ on_close
    \/ Test
    \/ Send
    \/ Sleep
    \/ Final

SpecStart == InitStart /\ [][NextStart]_vars

-----------------------------------------------------------------------------
(* Properties of decrement, checked under SpecDecrement *)

Worker == procs[1]

WorkerDone == Worker.pc = "done"

StrictlyDecreasing(s) == \A i \in 1..(Len(s) - 1) : s[i] > s[i + 1]

IsPrefix(s, t) == Len(s) <= Len(t) /\ SubSeq(t, 1, Len(s)) = s

Positive(v) == v > 0

IsZero(v) == v = 0

\* C3 as claimed: for every start_num >= 0 the values sent are exactly
\* start_num distinct positive values in strictly decreasing order, then
\* exactly one 0, which is the final message.
C3_Claim ==
    WorkerDone =>
        LET k == Worker.start IN
        /\ Len(sent) = k + 1
        /\ \A i \in 1..k : sent[i] > 0
        /\ StrictlyDecreasing(SubSeq(sent, 1, k))
        /\ sent[k + 1] = 0

\* C3 as amended: for every start_num >= 0 the values sent are exactly
\* start_num - 1 (none when start_num = 0) distinct positive values in
\* strictly decreasing order, followed by zeros only: two when start_num > 0,
\* one when start_num = 0; the final message is 0.
C3_Amended ==
    WorkerDone =>
        LET k == Worker.start
            pos == SelectSeq(sent, Positive)
            zeros == SelectSeq(sent, IsZero)
        IN
        /\ Len(pos) = (IF k > 0 THEN k - 1 ELSE 0)
        /\ StrictlyDecreasing(pos)
        /\ sent = pos \o zeros
        /\ Len(zeros) = (IF k > 0 THEN 2 ELSE 1)
        /\ sent[Len(sent)] = 0

\* decrement(3, pipe) has returned
C3_Witness == WorkerDone /\ Worker.start = 3 /\ Len(sent) = 4

\* start_num-1, ..., 1, 0 from the loop body and one more 0 after it
Expected(k) == IF k > 0 THEN [i \in 1..k |-> k - i] \o <<0>> ELSE <<0>>

\* C4: for start_num > 0 the worker sends start_num-1, ..., 1, 0 from the
\* loop body, one send per decrement, then one more 0 (3 gives 2,1,0,0);
\* for start_num = 0 it sends a single 0; then it terminates, having sent
\* nothing else.
C4_Sequence ==
    /\ IsPrefix(sent, Expected(Worker.start))
    /\ Worker.pc \in {"test", "sleep", "final"}
          => Len(sent) = Worker.start - Worker.n
    /\ Worker.pc = "send" => Len(sent) + 1 = Worker.start - Worker.n
    /\ WorkerDone <=> sent = Expected(Worker.start)

\* decrement(3, pipe) has sent 2, 1, 0, 0 and returned
C4_Witness == WorkerDone /\ Worker.start = 3 /\ sent = <<2, 1, 0, 0>>

-----------------------------------------------------------------------------
(* Properties of Window *)

LiveWorkers == {w \in 1..Len(procs) : Alive(w)}

\* no countdown is in progress: no child is alive and no poll is pending
Idle == gpc = "idle" /\ afterUpdate = 0 /\ LiveWorkers = {}

update == TimerUpdate \/ CallUpdate

\* C1 as claimed: when update runs and the channel holds no message, the
\* displayed text stays as it is and exactly one further update is pending
\* afterwards.
C1_Claim ==
    [][(update /\ cur # 0 /\ pipe = <<>>)
          => /\ display' = display
             /\ Pending(timers', "update") = SetToBag({Timer(100, "update")})]_vars

\* C2 as claimed: in a run where the window is never closed, the button is
\* clicked once (so from Idle) and update runs only as a timer callback, the
\* displayed text eventually is "End!" and after that eventually empty.
C2_Claim ==
    [](~destroyed /\ Len(procs) <= 1 /\ last.via # "call")
        => /\ (Len(procs) = 1) ~> (display = EndText)
           /\ (display = EndText) ~> (display = EmptyText)

\* C5 as claimed: after do_countdown from Idle there is a fresh channel, a
\* live worker started with 10 and bound to it, the window holds the
\* receiving end and the worker handle, and exactly one update is pending.
C5_Claim ==
    [][(do_countdown /\ Idle)
          => /\ cur' = Len(procs')
             /\ procs'[cur'] = NewProc(StartNum)
             /\ pipe' = <<>> /\ sent' = <<>> /\ recvd' = <<>>
             /\ Pending(timers', "update") = SetToBag({Timer(100, "update")})]_vars

C7_Claim == Cardinality(LiveWorkers) <= 1

\* C8: when update receives 0 it joins the worker, shows "End!", schedules
\* exactly one clear_countdown_label and no update; afterwards the GUI is
\* idle, the joined worker is not alive and no update is pending.
C8_Terminal ==
    /\ [](last.op = "update:zero" => gpc = "join" /\ afterUpdate = 0)
    /\ [](last.op = "update:end"
            => /\ display = EndText
               /\ gpc = "idle"
               /\ procs[cur].joined /\ ~Alive(cur)
               /\ afterClear >= 1
               /\ afterUpdate = 0)
    /\ [][(last.op = "update:zero" /\ last'.op = "update:end")
            => timers' = timers (+) SetToBag({Timer(1000, "clear")})]_vars

\* update received the 0 of a countdown and the join has returned
C8_Witness == last.op = "update:end" /\ recvd = <<9, 8, 7, 6, 5, 4, 3, 2, 1, 0>>

DigitValue(c) == CHOOSE d \in 0..9 : DigitChars[d + 1] = c

RECURSIVE Value(_)
Value(s) ==
    IF s = <<>> THEN 0
    ELSE 10 * Value(SubSeq(s, 1, Len(s) - 1)) + DigitValue(s[Len(s)])

\* s is the decimal numeral of v: digits only, no sign, no leading zero
IsDecimalOf(s, v) ==
    /\ Len(s) >= 1
    /\ \A i \in 1..Len(s) : \E d \in 0..9 : DigitChars[d + 1] = s[i]
    /\ Len(s) > 1 => s[1] # "0"
    /\ Value(s) = v

\* C9: when update receives v > 0 the displayed text is the decimal numeral
\* of v, one update is pending, and the worker is neither joined nor killed.
C9_Number ==
    (last.op = "update:number")
        => /\ last.val > 0
           /\ IsDecimalOf(display, last.val)
           /\ Pending(timers, "update") = SetToBag({Timer(100, "update")})
           /\ gpc = "idle"
           /\ ~procs[cur].joined /\ procs[cur].pc # "killed"

\* update received 7
C9_Witness == last.op = "update:number" /\ last.val = 7

NonIncreasing(s) == \A i \in 1..(Len(s) - 1) : s[i] >= s[i + 1]

\* C10: update takes at most one message per run, in the order sent and
\* without loss: what it has received is a prefix of what the worker sent
\* (9, 8, ..., 1, 0, 0), so the values shown never increase and none is
\* skipped.
C10_Fifo ==
    /\ [](/\ sent = recvd \o pipe
          /\ IsPrefix(recvd, Expected(StartNum))
          /\ NonIncreasing(recvd)
          /\ last.op = "update:number"
                => last.val = recvd[Len(recvd)] /\ display = Format(last.val))
    /\ [][Len(recvd') <= Len(recvd) + 1]_vars

\* update has shown 9 down to 4 while the worker is ahead of it
C10_Witness == recvd = <<9, 8, 7, 6, 5, 4>> /\ Len(pipe) >= 2

-----------------------------------------------------------------------------
(* Properties of on_close, of the worker's lifetime and of the label *)

\* the step is a run of on_close
CloseStep == ~destroyed /\ destroyed'

\* C11: when on_close runs while the current worker is alive, whatever the
\* worker is doing, the worker is killed and on_close raises nothing; from
\* then on no update runs and no callback is scheduled: nothing is received
\* or displayed and the pending callbacks stay as they are.
C11_CloseWhileRunning ==
    /\ [][(CloseStep /\ cur # 0 /\ Alive(cur))
            => /\ procs'[cur'].pc = "killed"
               /\ cur' = cur
               /\ last' = Handler("on_close", "event", -1, "none")]_vars
    /\ [][destroyed
            => /\ destroyed'
               /\ timers' = timers
               /\ recvd' = recvd
               /\ display' = display
               /\ gpc' = gpc
               /\ last' = last]_vars

\* on_close killed the worker between its decrement to 7 and the send of 7
C11_Witness ==
    /\ last.op = "on_close"
    /\ cur # 0
    /\ procs[cur].pc = "killed"
    /\ procs[cur].n = 7
    /\ sent = <<9, 8>>

\* C12 as claimed: once the terminal value has been handled, or once on_close
\* has completed, no worker this window started is still alive.
C12_Claim ==
    (last.op \in {"update:end", "on_close"}) => LiveWorkers = {}

\* the same with one do_countdown per run: what C12 rests on when the
\* button is never clicked a second time
C12_SingleStart ==
    (Len(procs) <= 1 /\ last.op \in {"update:end", "on_close"})
        => LiveWorkers = {}

\* the step is a run of clear_countdown_label: a pending clear is taken
ClearStep == afterClear' < afterClear

TerminalStep == gpc = "idle" /\ gpc' = "join"

\* C14 as claimed: at the moment update receives 0 and joins, the worker is
\* past its loop, for every start_num >= 0.
C14_Claim ==
    [][TerminalStep => procs'[cur'].pc \in {"final", "done"}]_vars

\* C14 as amended: at the moment update receives 0 and joins, the worker has
\* sent the last value of its loop (its start_num is 0) and has at most the
\* sleep of that iteration and the trailing send left; it is past the loop
\* only when the sleep is over, and has exited when the 0 received is the
\* trailing one (always so for start_num = 0).
C14_Amended ==
    /\ [][TerminalStep
            => /\ procs'[cur'].n = 0
               /\ procs'[cur'].pc \in {"sleep", "final", "done"}
               /\ (procs'[cur'].start = 0 \/ Len(recvd') = procs'[cur'].start + 1)
                     => procs'[cur'].pc = "done"]_vars
    /\ [](gpc = "join"
            => procs[cur].n = 0 /\ procs[cur].pc \in {"sleep", "final", "done"})

\* update received the 0 of the loop body while the worker, started with 3,
\* is still in the sleep of its last iteration
C14_Witness ==
    /\ gpc = "join"
    /\ procs[cur].start = 3
    /\ procs[cur].pc = "sleep"
    /\ recvd = <<2, 1, 0>>

\* C15: every update terminates.  The receive after a successful poll takes a
\* buffered message at once, and the join of line 62 returns: whenever the
\* GUI thread is inside the join, also after several do_countdown, the joined
\* worker exits without anything more being received, and the GUI thread
\* becomes idle again.
C15_JoinReturns ==
    /\ (gpc = "join") ~> (gpc = "idle")
    /\ [][gpc = "join" => recvd' = recvd /\ pipe' \in {pipe, Append(pipe, 0)}]_vars

\* the GUI thread is blocked in join on the second worker, which is alive
C15_Witness == gpc = "join" /\ cur = 2 /\ Alive(cur)

\* the workers a step kills
Killed == {w \in 1..Len(procs) : procs[w].pc # "killed" /\ procs'[w].pc = "killed"}

\* C16: on_close kills a worker if and only if a worker handle exists and
\* that worker is alive, and then kills exactly that one; when no countdown
\* was started, or the worker has exited or was joined, it kills nothing and
\* only destroys the window.  It raises nothing and joins nothing.
C16_KillIffAlive ==
    [][CloseStep
         => /\ Killed = (IF cur # 0 /\ Alive(cur) THEN {cur} ELSE {})
            /\ \A w \in 1..Len(procs) :
                  /\ procs'[w].joined = procs[w].joined
                  /\ w \notin Killed => procs'[w] = procs[w]
            /\ Len(procs') = Len(procs)
            /\ gpc' = "idle"
            /\ last'.op = "on_close" /\ last'.exc = "none"]_vars

\* on_close ran after the worker had exited without being joined: nothing
\* was killed
C16_Witness ==
    /\ last.op = "on_close"
    /\ cur # 0
    /\ procs[cur].pc = "done"
    /\ ~procs[cur].joined

\* update has consumed a terminal value of the current countdown
ZeroConsumed == recvd # <<>> /\ recvd[Len(recvd)] = 0

\* C17 as claimed: once update has consumed the terminal value, the worker
\* sends nothing further on the channel and no message is left unconsumed in
\* it.
C17_Claim == ZeroConsumed => pipe = <<>>

\* C17 as amended: once update has consumed the first 0 of a countdown, the
\* worker sends nothing further on the channel except the trailing 0 of line
\* 15, which is left unconsumed in it unless update is run once more; when
\* the join has returned the worker has exited, everything it had to send
\* is sent, and the channel holds exactly what was not received: the
\* trailing 0, or nothing if that too was received.
C17_Amended ==
    /\ [](ZeroConsumed
            => /\ pipe \in {<<>>, <<0>>}
               /\ sent = recvd \o pipe
               /\ IsPrefix(sent, Expected(procs[cur].start)))
    /\ [](cur # 0 /\ procs[cur].joined
            => /\ ~Alive(cur)
               /\ sent = Expected(procs[cur].start)
               /\ pipe = (IF Len(recvd) = Len(sent) THEN <<>> ELSE <<0>>))
    /\ [][(ZeroConsumed /\ recvd' = recvd)
            => pipe' \in {pipe, Append(pipe, 0)}]_vars

\* the join has returned and the trailing 0 lies unconsumed in the channel
C17_Witness ==
    /\ last.op = "update:end"
    /\ procs[cur].joined
    /\ pipe = <<0>>
    /\ recvd = <<9, 8, 7, 6, 5, 4, 3, 2, 1, 0>>

\* C18: in every reachable state the label is empty, "End!", or the decimal
\* numeral of a value from 1 to start-1 (1..9 for the start 10); it is never
\* "0" and never the numeral of the start value.
C18_Display ==
    /\ \/ display = <<>>
       \/ display = <<"E", "n", "d", "!">>
       \/ \E v \in 1..9 : IsDecimalOf(display, v)
    /\ display # <<"0">>
    /\ display # <<"1", "0">>
    /\ cur # 0 /\ display \notin {<<>>, <<"E", "n", "d", "!">>}
          => \E v \in 1..(procs[cur].start - 1) : IsDecimalOf(display, v)

\* the last digit of a countdown is shown
C18_Witness == display = <<"1">> /\ last.op = "update:number"

\* C19: when the delayed clear fires, the label shows "End!" or is already
\* empty, and no countdown is running: the clear never erases a digit of a
\* countdown in progress.
C19_Claim ==
    [][ClearStep => /\ display \in {<<>>, <<"E", "n", "d", "!">>}
                    /\ cur = 0 \/ ~Alive(cur)]_vars

====
